---- MODULE Spec2Model ----
(***************************************************************************)
(* Model of src/agent.py: the longevity-index HTTP service.                *)
(*                                                                         *)
(* Numbers are fixed point, in tenths (4.5 is 45, 50.0 is 500).  A Python  *)
(* str is a record ([lit |-> "x"], [raw |-> text], a deviation message, a  *)
(* PubMed URL); a Python/JSON value is a tagged record ([num |-> n],       *)
(* [int |-> n], [str |-> s], [list |-> seq], [null |-> TRUE]).  A model    *)
(* reply text is a sequence of tokens: "{", "}", "x" (a character of       *)
(* prose), "5" (a digit) and the names of member lists (the text between   *)
(* the braces of a JSON object).                                           *)
(***************************************************************************)
EXTENDS Integers, Sequences, FiniteSets, TLC

VARIABLES
  BIOMARKER_RANGES,        \* module global, src/agent.py:42
  LONGEVITY_INTERVENTIONS, \* module global, src/agent.py:55
  loop,                    \* the request whose coroutine holds the event loop
  pc,                      \* position of each request's handler
  endpoint,                \* the route each request was sent to
  req,                     \* the validated request body (profile / query)
  deviations,              \* local of analyze_longevity
  papers,                  \* local of both analysis handlers
  prompt,                  \* the data embedded in the prompt of the model call
  searchOut,               \* what the literature search call did
  modelOut,                \* what the model-completion call did
  branch,                  \* "parsed" / "fallback": the arm of try/except taken
  resp,                    \* the HTTP response
  searchCalls,             \* number of hclient.get calls issued
  modelCalls,              \* number of client.messages.create calls issued
  devIn,                   \* input of the deviation-analyzer harness
  devOut                   \* its output

vars == <<BIOMARKER_RANGES, LONGEVITY_INTERVENTIONS, loop, pc, endpoint, req,
          deviations, papers, prompt, searchOut, modelOut, branch, resp,
          searchCalls, modelCalls, devIn, devOut>>

----------------------------------------------------------------------------
(* Bounds *)

MaxLen == 5       \* longest model reply text, in tokens
MaxMarkers == 2   \* most entries of a biomarker mapping fed to the harness
MaxIds == 4       \* most identifiers in the search result's idlist

Requests == {"r1", "r2"}
NONE == "none"

----------------------------------------------------------------------------
(* Values *)

Num(n) == [num |-> n]
PyInt(n) == [int |-> n]
Str(s) == [str |-> s]
List(s) == [list |-> s]
Null == [null |-> TRUE]
Lit(s) == [lit |-> s]
Raw(t) == [raw |-> t]

\* float(n) of an int, in tenths
Float(n) == n * 10

Min(a, b) == IF a < b THEN a ELSE b
Max(a, b) == IF a > b THEN a ELSE b

\* s[:n] of a Python list, n >= 0
Take(s, n) == SubSeq(s, 1, Min(n, Len(s)))

----------------------------------------------------------------------------
(* Reference tables *)

Range(low, high, unit, name) ==
  [low |-> low, high |-> high, unit |-> unit, name |-> name]

RangesAtStart ==
  [hba1c |-> Range(45, 52, "%", "HbA1c"),
   crp |-> Range(0, 10, "mg/L", "C-Reactive Protein"),
   igf1 |-> Range(1000, 2000, "ng/mL", "IGF-1"),
   testosterone |-> Range(4000, 7000, "ng/dL", "Testosterone (male)"),
   vitamin_d |-> Range(400, 800, "ng/mL", "Vitamin D"),
   homocysteine |-> Range(0, 90, "umol/L", "Homocysteine"),
   triglycerides |-> Range(0, 1000, "mg/dL", "Triglycerides"),
   hdl |-> Range(600, 1000, "mg/dL", "HDL Cholesterol"),
   fasting_glucose |-> Range(700, 900, "mg/dL", "Fasting Glucose"),
   telomere_length |-> Range(70, 90, "kb", "Telomere Length")]

InterventionsAtStart ==
  <<Lit("caloric restriction"), Lit("time-restricted eating"), Lit("metformin"),
    Lit("rapamycin"), Lit("NAD+ precursors"), Lit("senolytics"),
    Lit("exercise"), Lit("sleep optimization"), Lit("cold exposure"),
    Lit("heat therapy"), Lit("omega-3"), Lit("resveratrol")>>

----------------------------------------------------------------------------
(* Deviation analyzer.  A mapping is a sequence of entries in insertion    *)
(* order, with distinct markers.                                           *)

Entry(marker, value) == [marker |-> marker, value |-> value]

Issue(rng, value, dir) ==
  [name |-> rng.name, value |-> value, unit |-> rng.unit, dir |-> dir,
   low |-> rng.low, high |-> rng.high]

\* the loop of analyze_biomarker_deviations over the first n entries
RECURSIVE DeviationLoop(_, _, _)
DeviationLoop(biomarkers, ranges, n) ==
  IF n = 0 THEN <<>>
  ELSE LET issues == DeviationLoop(biomarkers, ranges, n - 1)
           marker == biomarkers[n].marker
           value == biomarkers[n].value
       IN IF marker \in DOMAIN ranges
          THEN IF value < ranges[marker].low
               THEN Append(issues, Issue(ranges[marker], value, "below"))
               ELSE IF value > ranges[marker].high
                    THEN Append(issues, Issue(ranges[marker], value, "above"))
                    ELSE issues
          ELSE issues

analyze_biomarker_deviations_inclusive(biomarkers, ranges) ==
  LET RECURSIVE Go(_)
      Go(n) ==
        IF n = 0 THEN <<>>
        ELSE LET issues == Go(n - 1)
                 marker == biomarkers[n].marker
                 value == biomarkers[n].value
             IN IF marker \in DOMAIN ranges
                THEN IF value <= ranges[marker].low
                     THEN Append(issues, Issue(ranges[marker], value, "below"))
                     ELSE IF value > ranges[marker].high
                          THEN Append(issues, Issue(ranges[marker], value, "above"))
                          ELSE issues
                ELSE issues
  IN Go(Len(biomarkers))

analyze_biomarker_deviations(biomarkers, ranges) ==
  DeviationLoop(biomarkers, ranges, Len(biomarkers))

----------------------------------------------------------------------------
(* Literature lookup adapter.  An outcome of hclient.get is what the call  *)
(* raised, or the body it returned.                                        *)

PubMedUrl(pid) == [pubmed |-> pid]

Outcome(raised, isJson, isObject, hasResult, hasIdlist, idlist) ==
  [raised |-> raised, isJson |-> isJson, isObject |-> isObject,
   hasResult |-> hasResult, hasIdlist |-> hasIdlist, idlist |-> idlist]

Returned(v) == [raised |-> FALSE, value |-> v]
Raised == [raised |-> TRUE, value |-> <<>>]

search_longevity_papers_uncaught_json(out) ==
  IF out.raised # NONE THEN Returned(<<>>)
  ELSE IF ~out.isJson THEN Raised
  ELSE IF ~out.isObject THEN Raised
  ELSE IF ~out.hasResult \/ ~out.hasIdlist THEN Returned(<<>>)
  ELSE IF "list" \notin DOMAIN out.idlist THEN Raised
  ELSE Returned([i \in 1..Min(3, Len(out.idlist.list)) |->
                   PubMedUrl(out.idlist.list[i])])

\* the body of search_longevity_papers once hclient.get has completed
search_longevity_papers(out) ==
  IF out.raised # NONE THEN Returned(<<>>)        \* r = await hclient.get: except
  ELSE IF ~out.isJson THEN Returned(<<>>)         \* r.json() raises: except
  ELSE IF ~out.isObject THEN Returned(<<>>)       \* data.get raises: except
  ELSE IF ~out.hasResult \/ ~out.hasIdlist THEN Returned(<<>>)  \* .get defaults
  ELSE IF "list" \notin DOMAIN out.idlist THEN Returned(<<>>)   \* None[:3] raises
  ELSE Returned([i \in 1..Min(3, Len(out.idlist.list)) |->
                   PubMedUrl(out.idlist.list[i])])

----------------------------------------------------------------------------
(* Response normalizer *)

\* text.find(ch): 0-based index of the first occurrence, -1 if none
Find(text, ch) ==
  IF \E i \in 1..Len(text) : text[i] = ch
  THEN (CHOOSE i \in 1..Len(text) :
          text[i] = ch /\ \A j \in 1..(i - 1) : text[j] # ch) - 1
  ELSE -1

\* text.rfind(ch): 0-based index of the last occurrence, -1 if none
RFind(text, ch) ==
  IF \E i \in 1..Len(text) : text[i] = ch
  THEN (CHOOSE i \in 1..Len(text) :
          text[i] = ch /\ \A j \in (i + 1)..Len(text) : text[j] # ch) - 1
  ELSE -1

\* s[a:b] of Python: a negative index counts from the end, both are clamped
PySlice(s, a, b) ==
  LET n == Len(s)
      lo == IF a < 0 THEN Max(a + n, 0) ELSE Min(a, n)
      hi == IF b < 0 THEN Max(b + n, 0) ELSE Min(b, n)
  IN IF lo >= hi THEN <<>> ELSE SubSeq(s, lo + 1, hi)

\* The member lists a reply may carry between braces: the name of the token
\* and the object its text decodes to.
Members ==
  [Mpartial |-> [biological_age |-> Num(425), longevity_score |-> Num(800)],
   Mfull |-> [biological_age |-> Num(390), longevity_score |-> Num(910),
              top_risk_factors |-> List(<<Lit("inflammation")>>),
              top_interventions |-> List(<<Lit("exercise"), Lit("omega-3")>>),
              estimated_healthspan_gain_years |-> Num(35),
              summary |-> Str(Lit("good"))],
   Mbadtype |-> [biological_age |-> Str(Lit("unknown")),
                 longevity_score |-> Num(800)],
   Mextra |-> [confidence |-> Num(9)],
   Ifull |-> [evidence_level |-> Str(Lit("strong")),
              expected_lifespan_impact_years |-> Num(15),
              expected_healthspan_impact_years |-> Num(30),
              mechanisms |-> List(<<Lit("AMPK activation")>>),
              side_effects |-> List(<<Lit("GI upset")>>),
              recommended_protocol |-> Str(Lit("500mg daily")),
              pubmed_references |-> List(<<>>)],
   Iextra |-> [evidence_level |-> Str(Lit("weak")),
               expected_lifespan_impact_years |-> Num(0),
               expected_healthspan_impact_years |-> Num(5),
               mechanisms |-> List(<<>>),
               side_effects |-> List(<<>>),
               recommended_protocol |-> Str(Lit("none")),
               pubmed_references |-> List(<<PubMedUrl("p9")>>),
               notes |-> Str(Lit("n/a"))],
   Idup |-> [intervention |-> Str(Lit("other")),
             evidence_level |-> Str(Lit("strong")),
             expected_lifespan_impact_years |-> Num(15),
             expected_healthspan_impact_years |-> Num(30),
             mechanisms |-> List(<<>>),
             side_effects |-> List(<<>>),
             recommended_protocol |-> Str(Lit("500mg daily")),
             pubmed_references |-> List(<<>>)],
   Ibadtype |-> [evidence_level |-> Str(Lit("strong")),
                 expected_lifespan_impact_years |-> Null,
                 expected_healthspan_impact_years |-> Num(30),
                 mechanisms |-> Str(Lit("AMPK activation")),
                 side_effects |-> List(<<>>),
                 recommended_protocol |-> Str(Lit("500mg daily")),
                 pubmed_references |-> List(<<>>)]]

MemberTokens == DOMAIN Members

Decoded(v) == [ok |-> TRUE, value |-> v]
JSONDecodeError == [ok |-> FALSE, value |-> Null]

\* the empty function: the dict {}
EmptyDict == [k \in {} |-> Null]

\* json.loads(s): an object, a number, or JSONDecodeError
json_loads(s) ==
  IF Len(s) = 2 /\ s[1] = "{" /\ s[2] = "}" THEN Decoded([obj |-> EmptyDict])
  ELSE IF Len(s) = 3 /\ s[1] = "{" /\ s[2] \in MemberTokens /\ s[3] = "}"
       THEN Decoded([obj |-> Members[s[2]]])
  ELSE IF Len(s) >= 1 /\ \A i \in 1..Len(s) : s[i] = "5"
       THEN Decoded(Num(Len(s)))
  ELSE JSONDecodeError

\* text[start:end] with start = text.find("{"), end = text.rfind("}") + 1
SpanFirstClose(text) == PySlice(text, Find(text, "{"), Find(text, "}") + 1)

Span(text) == PySlice(text, Find(text, "{"), RFind(text, "}") + 1)

\* result.get(key, default)
Get(result, key, default) ==
  IF key \in DOMAIN result THEN result[key] ELSE default

IsFloat(v) == "num" \in DOMAIN v
IsStr(v) == "str" \in DOMAIN v
IsStrList(v) == "list" \in DOMAIN v

Ok(body) == [status |-> 200, body |-> body]
ServerError(exc) == [status |-> 500, body |-> [error |-> exc]]

----------------------------------------------------------------------------
(* analyze_longevity, from the reply text to the response *)

\* the dict of the except arm
LongevityFallback(profile, devs, interventions, text) ==
  [biological_age |-> Num(Float(profile.age)),
   longevity_score |-> Num(500),
   top_risk_factors |-> List(Take(devs, 3)),
   top_interventions |-> List(Take(interventions, 3)),
   estimated_healthspan_gain_years |-> Num(20),
   summary |-> Str(Raw(text))]

LongevityFieldsZeroScore(profile, result) ==
  [chronological_age |-> PyInt(profile.age),
   biological_age |-> Get(result, "biological_age", Num(Float(profile.age))),
   longevity_score |-> Get(result, "longevity_score", Num(0)),
   top_risk_factors |-> Get(result, "top_risk_factors", List(<<>>)),
   top_interventions |-> Get(result, "top_interventions", List(<<>>)),
   estimated_healthspan_gain_years |->
     Get(result, "estimated_healthspan_gain_years", Num(0)),
   summary |-> Get(result, "summary", Str(Lit("")))]

LongevityFields(profile, result) ==
  [chronological_age |-> PyInt(profile.age),
   biological_age |-> Get(result, "biological_age", Num(Float(profile.age))),
   longevity_score |-> Get(result, "longevity_score", Num(500)),
   top_risk_factors |-> Get(result, "top_risk_factors", List(<<>>)),
   top_interventions |-> Get(result, "top_interventions", List(<<>>)),
   estimated_healthspan_gain_years |->
     Get(result, "estimated_healthspan_gain_years", Num(0)),
   summary |-> Get(result, "summary", Str(Lit("")))]

\* validation of the LongevityScore model
LongevityScoreValid(f) ==
  /\ IsFloat(f.biological_age)
  /\ IsFloat(f.longevity_score)
  /\ IsStrList(f.top_risk_factors)
  /\ IsStrList(f.top_interventions)
  /\ IsFloat(f.estimated_healthspan_gain_years)
  /\ IsStr(f.summary)

\* return LongevityScore(...), result being what json.loads returned or the
\* fallback dict
LongevityScore(profile, result) ==
  IF "obj" \notin DOMAIN result THEN ServerError("AttributeError")
  ELSE LET f == LongevityFields(profile, result.obj)
       IN IF LongevityScoreValid(f) THEN Ok(f)
          ELSE ServerError("ValidationError")

----------------------------------------------------------------------------
(* analyze_intervention, from the reply text to the response *)

InterventionFallbackNoRefs(text, refs) ==
  [evidence_level |-> Str(Lit("moderate")),
   expected_lifespan_impact_years |-> Num(10),
   expected_healthspan_impact_years |-> Num(20),
   mechanisms |-> List(<<>>),
   side_effects |-> List(<<>>),
   recommended_protocol |-> Str(Raw(text)),
   pubmed_references |-> List(<<>>)]

InterventionFallback(text, refs) ==
  [evidence_level |-> Str(Lit("moderate")),
   expected_lifespan_impact_years |-> Num(10),
   expected_healthspan_impact_years |-> Num(20),
   mechanisms |-> List(<<>>),
   side_effects |-> List(<<>>),
   recommended_protocol |-> Str(Raw(text)),
   pubmed_references |-> List(refs)]

InterventionKeys ==
  {"evidence_level", "expected_lifespan_impact_years",
   "expected_healthspan_impact_years", "mechanisms", "side_effects",
   "recommended_protocol", "pubmed_references"}

\* validation of the InterventionAnalysis model, all fields present
InterventionAnalysisValid(f) ==
  /\ IsStr(f.evidence_level)
  /\ IsFloat(f.expected_lifespan_impact_years)
  /\ IsFloat(f.expected_healthspan_impact_years)
  /\ IsStrList(f.mechanisms)
  /\ IsStrList(f.side_effects)
  /\ IsStr(f.recommended_protocol)
  /\ IsStrList(f.pubmed_references)

\* return InterventionAnalysis(intervention=query.intervention, **result)
InterventionAnalysis(query, result) ==
  IF "obj" \notin DOMAIN result THEN ServerError("TypeError")
  ELSE IF "intervention" \in DOMAIN result.obj THEN ServerError("TypeError")
  ELSE IF ~(InterventionKeys \subseteq DOMAIN result.obj)
       THEN ServerError("ValidationError")
  ELSE IF ~InterventionAnalysisValid(result.obj)
       THEN ServerError("ValidationError")
  ELSE Ok([k \in InterventionKeys \cup {"intervention"} |->
             IF k = "intervention" THEN Str(query.intervention)
             ELSE result.obj[k]])

----------------------------------------------------------------------------
(* Inputs *)

Profile(age, sex, biomarkers) ==
  [age |-> age, sex |-> sex, biomarkers |-> biomarkers]

Query(intervention, age) == [intervention |-> intervention, age |-> age]

\* request bodies that pass validation
Profiles ==
  {Profile(45, "male", <<Entry("hba1c", 60)>>),
   Profile(30, "female",
           <<Entry("hba1c", 60), Entry("made_up_marker", 1), Entry("crp", 15),
             Entry("hdl", 500), Entry("igf1", 1500), Entry("vitamin_d", 300)>>)}

Queries == {Query(Lit("metformin"), 45)}

IdList(n) == [i \in 1..n |-> <<"p1", "p2", "p3", "p4", "p5", "p6">>[i]]

\* what hclient.get can do
SearchOutcomes ==
  {Outcome("network", FALSE, FALSE, FALSE, FALSE, Null),
   Outcome("timeout", FALSE, FALSE, FALSE, FALSE, Null),
   Outcome(NONE, FALSE, FALSE, FALSE, FALSE, Null),
   Outcome(NONE, TRUE, FALSE, FALSE, FALSE, Null),
   Outcome(NONE, TRUE, TRUE, FALSE, FALSE, Null),
   Outcome(NONE, TRUE, TRUE, TRUE, FALSE, Null),
   Outcome(NONE, TRUE, TRUE, TRUE, TRUE, Null)}
  \cup {Outcome(NONE, TRUE, TRUE, TRUE, TRUE, List(IdList(n))) : n \in 0..MaxIds}

\* the outcomes of the runs over every reply text: a timeout, two identifiers
FewOutcomes ==
  {Outcome("timeout", FALSE, FALSE, FALSE, FALSE, Null),
   Outcome(NONE, TRUE, TRUE, TRUE, TRUE, List(IdList(2)))}

ShapeTokens == {"{", "}", "x", "5", "M"}

Shapes == UNION {[1..n -> ShapeTokens] : n \in 0..MaxLen}

\* the reply texts: every shape, with every member list in the place of M
Texts ==
  {[i \in 1..Len(s) |-> IF s[i] = "M" THEN m ELSE s[i]] :
     s \in Shapes, m \in MemberTokens}

\* the reply texts of the runs with two requests
FewTexts ==
  {<<"x">>, <<"x", "{", "Mpartial", "}">>, <<"{", "Ifull", "}">>,
   <<"{", "Mbadtype", "}", "x">>, <<"}", "{">>}

DevMarkers == {"hba1c", "crp", "made_up_marker"}
DevValues == {-5, 0, 5, 10, 15, 30, 45, 50, 52, 60}

BiomarkerMaps ==
  {m \in UNION {[1..n -> [marker : DevMarkers, value : DevValues]] :
                  n \in 0..MaxMarkers} :
     \A i, j \in 1..Len(m) : i # j => m[i].marker # m[j].marker}

----------------------------------------------------------------------------
(* State *)

Nothing == [none |-> TRUE]
Reply(text) == [text |-> text]
CallFailed == [failed |-> TRUE]
NotRun == [run |-> FALSE, issues |-> <<>>]
Ran(issues) == [run |-> TRUE, issues |-> issues]

Init ==
  /\ BIOMARKER_RANGES = RangesAtStart
  /\ LONGEVITY_INTERVENTIONS = InterventionsAtStart
  /\ loop = NONE
  /\ pc = [r \in Requests |-> "idle"]
  /\ endpoint = [r \in Requests |-> NONE]
  /\ req = [r \in Requests |-> Nothing]
  /\ deviations = [r \in Requests |-> <<>>]
  /\ papers = [r \in Requests |-> <<>>]
  /\ prompt = [r \in Requests |-> Nothing]
  /\ searchOut = [r \in Requests |-> Nothing]
  /\ modelOut = [r \in Requests |-> Nothing]
  /\ branch = [r \in Requests |-> NONE]
  /\ resp = [r \in Requests |-> Nothing]
  /\ searchCalls = [r \in Requests |-> 0]
  /\ modelCalls = [r \in Requests |-> 0]
  /\ devIn = <<>>
  /\ devOut = NotRun

tables == <<BIOMARKER_RANGES, LONGEVITY_INTERVENTIONS>>
harness == <<devIn, devOut>>

----------------------------------------------------------------------------
(* Handlers.  The event loop runs one coroutine at a time; a coroutine     *)
(* gives the loop back at an await, and keeps it through a blocking call.  *)

analyze_longevity_begin_shared(r, profile) ==
  /\ pc[r] = "idle" /\ loop = NONE
  /\ endpoint' = [endpoint EXCEPT ![r] = "analyze_longevity"]
  /\ req' = [req EXCEPT ![r] = profile]
  /\ deviations' = [q \in Requests |->
       analyze_biomarker_deviations(profile.biomarkers, BIOMARKER_RANGES)]
  /\ searchCalls' = [searchCalls EXCEPT ![r] = @ + 1]
  /\ pc' = [pc EXCEPT ![r] = "await_search"]
  /\ UNCHANGED <<tables, harness, loop, papers, prompt, searchOut, modelOut,
                 branch, resp, modelCalls>>

\* analyze_longevity up to the await inside search_longevity_papers
analyze_longevity_begin(r, profile) ==
  /\ pc[r] = "idle" /\ loop = NONE
  /\ endpoint' = [endpoint EXCEPT ![r] = "analyze_longevity"]
  /\ req' = [req EXCEPT ![r] = profile]
  /\ deviations' = [deviations EXCEPT ![r] =
       analyze_biomarker_deviations(profile.biomarkers, BIOMARKER_RANGES)]
  /\ searchCalls' = [searchCalls EXCEPT ![r] = @ + 1]
  /\ pc' = [pc EXCEPT ![r] = "await_search"]
  /\ UNCHANGED <<tables, harness, loop, papers, prompt, searchOut, modelOut,
                 branch, resp, modelCalls>>

\* analyze_intervention up to the await inside search_longevity_papers
analyze_intervention_begin(r, query) ==
  /\ pc[r] = "idle" /\ loop = NONE
  /\ endpoint' = [endpoint EXCEPT ![r] = "analyze_intervention"]
  /\ req' = [req EXCEPT ![r] = query]
  /\ searchCalls' = [searchCalls EXCEPT ![r] = @ + 1]
  /\ pc' = [pc EXCEPT ![r] = "await_search"]
  /\ UNCHANGED <<tables, harness, loop, deviations, papers, prompt, searchOut,
                 modelOut, branch, resp, modelCalls>>

\* hclient.get completes and the coroutine is resumed: the rest of
\* search_longevity_papers, then the handler goes on with the loop (an
\* exception leaving search_longevity_papers would leave the handler too)
search_return(r, out) ==
  /\ pc[r] = "await_search" /\ loop = NONE
  /\ searchOut' = [searchOut EXCEPT ![r] = out]
  /\ LET res == search_longevity_papers(out)
     IN IF res.raised
        THEN /\ resp' = [resp EXCEPT ![r] = ServerError("search")]
             /\ pc' = [pc EXCEPT ![r] = "done"]
             /\ UNCHANGED <<papers, loop>>
        ELSE /\ papers' = [papers EXCEPT ![r] = res.value]
             /\ pc' = [pc EXCEPT ![r] = "resumed"]
             /\ loop' = r
             /\ UNCHANGED resp
  /\ UNCHANGED <<tables, harness, endpoint, req, deviations, prompt, modelOut,
                 branch, searchCalls, modelCalls>>

\* the data the f-string of the prompt embeds
PromptOf(r) ==
  IF endpoint[r] = "analyze_longevity"
  THEN [profile |-> req[r], deviations |-> deviations[r],
        ranges |-> BIOMARKER_RANGES, papers |-> papers[r]]
  ELSE [query |-> req[r], papers |-> papers[r]]

messages_create_twice(r) ==
  /\ pc[r] = "resumed" /\ loop = r
  /\ prompt' = [prompt EXCEPT ![r] = PromptOf(r)]
  /\ modelCalls' = [modelCalls EXCEPT ![r] = @ + 2]
  /\ pc' = [pc EXCEPT ![r] = "model_call"]
  /\ UNCHANGED <<tables, harness, loop, endpoint, req, deviations, papers,
                 searchOut, modelOut, branch, resp, searchCalls>>

\* the prompt is built and client.messages.create is called: a blocking
\* call of the synchronous client, the coroutine keeps the loop
messages_create(r) ==
  /\ pc[r] = "resumed" /\ loop = r
  /\ prompt' = [prompt EXCEPT ![r] = PromptOf(r)]
  /\ modelCalls' = [modelCalls EXCEPT ![r] = @ + 1]
  /\ pc' = [pc EXCEPT ![r] = "model_call"]
  /\ UNCHANGED <<tables, harness, loop, endpoint, req, deviations, papers,
                 searchOut, modelOut, branch, resp, searchCalls>>

messages_create_raises_fallback(r) ==
  /\ pc[r] = "model_call" /\ loop = r
  /\ modelOut' = [modelOut EXCEPT ![r] = CallFailed]
  /\ branch' = [branch EXCEPT ![r] = "fallback"]
  /\ resp' = [resp EXCEPT ![r] =
       IF endpoint[r] = "analyze_longevity"
       THEN LongevityScore(req[r],
              [obj |-> LongevityFallback(req[r], deviations[r],
                                         LONGEVITY_INTERVENTIONS, <<>>)])
       ELSE InterventionAnalysis(req[r],
              [obj |-> InterventionFallback(<<>>, papers[r])])]
  /\ pc' = [pc EXCEPT ![r] = "done"]
  /\ loop' = NONE
  /\ UNCHANGED <<tables, harness, endpoint, req, deviations, papers, prompt,
                 searchOut, searchCalls, modelCalls>>

\* client.messages.create raises: nothing catches it, the framework answers
\* with a server error
messages_create_raises(r) ==
  /\ pc[r] = "model_call" /\ loop = r
  /\ modelOut' = [modelOut EXCEPT ![r] = CallFailed]
  /\ resp' = [resp EXCEPT ![r] = ServerError("upstream")]
  /\ pc' = [pc EXCEPT ![r] = "done"]
  /\ loop' = NONE
  /\ UNCHANGED <<tables, harness, endpoint, req, deviations, papers, prompt,
                 searchOut, branch, searchCalls, modelCalls>>

\* client.messages.create returns one of the texts: the rest of
\* analyze_longevity
analyze_longevity_finish(r, texts) ==
  /\ pc[r] = "model_call" /\ loop = r /\ endpoint[r] = "analyze_longevity"
  /\ \E text \in texts :
       LET d == json_loads(Span(text))
           result == IF d.ok THEN d.value
                     ELSE [obj |-> LongevityFallback(req[r], deviations[r],
                                     LONGEVITY_INTERVENTIONS, text)]
       IN /\ modelOut' = [modelOut EXCEPT ![r] = Reply(text)]
          /\ branch' = [branch EXCEPT ![r] =
                          IF d.ok THEN "parsed" ELSE "fallback"]
          /\ resp' = [resp EXCEPT ![r] = LongevityScore(req[r], result)]
  /\ pc' = [pc EXCEPT ![r] = "done"]
  /\ loop' = NONE
  /\ UNCHANGED <<tables, harness, endpoint, req, deviations, papers, prompt,
                 searchOut, searchCalls, modelCalls>>

\* client.messages.create returns one of the texts: the rest of
\* analyze_intervention
analyze_intervention_finish(r, texts) ==
  /\ pc[r] = "model_call" /\ loop = r /\ endpoint[r] = "analyze_intervention"
  /\ \E text \in texts :
       LET d == json_loads(Span(text))
           result == IF d.ok THEN d.value
                     ELSE [obj |-> InterventionFallback(text, papers[r])]
       IN /\ modelOut' = [modelOut EXCEPT ![r] = Reply(text)]
          /\ branch' = [branch EXCEPT ![r] =
                          IF d.ok THEN "parsed" ELSE "fallback"]
          /\ resp' = [resp EXCEPT ![r] = InterventionAnalysis(req[r], result)]
  /\ pc' = [pc EXCEPT ![r] = "done"]
  /\ loop' = NONE
  /\ UNCHANGED <<tables, harness, endpoint, req, deviations, papers, prompt,
                 searchOut, searchCalls, modelCalls>>

\* a handler without awaits, from the request to the response
Static(r, route, body) ==
  /\ pc[r] = "idle" /\ loop = NONE
  /\ endpoint' = [endpoint EXCEPT ![r] = route]
  /\ resp' = [resp EXCEPT ![r] = Ok(body)]
  /\ pc' = [pc EXCEPT ![r] = "done"]
  /\ UNCHANGED <<tables, harness, loop, req, deviations, papers, prompt,
                 searchOut, modelOut, branch, searchCalls, modelCalls>>

get_biomarker_reference(r) ==
  Static(r, "biomarker_reference", BIOMARKER_RANGES)

get_interventions(r) ==
  Static(r, "interventions_list", [interventions |-> LONGEVITY_INTERVENTIONS])

health(r) ==
  Static(r, "health", [status |-> "ok", service |-> "longevity-index"])

\* the deviation analyzer applied to the input of the harness
analyze_dev ==
  /\ ~devOut.run
  /\ devOut' = Ran(analyze_biomarker_deviations(devIn, BIOMARKER_RANGES))
  /\ UNCHANGED <<tables, loop, pc, endpoint, req, deviations, papers, prompt,
                 searchOut, modelOut, branch, resp, searchCalls, modelCalls,
                 devIn>>

----------------------------------------------------------------------------
(* Specifications *)

\* two concurrent requests to any endpoints
Next ==
  \E r \in Requests :
    \/ \E profile \in Profiles : analyze_longevity_begin(r, profile)
    \/ \E query \in Queries : analyze_intervention_begin(r, query)
    \/ \E out \in SearchOutcomes : search_return(r, out)
    \/ messages_create(r)
    \/ messages_create_raises(r)
    \/ analyze_longevity_finish(r, FewTexts)
    \/ analyze_intervention_finish(r, FewTexts)
    \/ get_biomarker_reference(r)
    \/ get_interventions(r)
    \/ health(r)

Spec == Init /\ [][Next]_vars

\* one analysis request, every reply text
NextNorm ==
  \/ \E profile \in Profiles : analyze_longevity_begin("r1", profile)
  \/ \E query \in Queries : analyze_intervention_begin("r1", query)
  \/ \E out \in FewOutcomes : search_return("r1", out)
  \/ messages_create("r1")
  \/ messages_create_raises("r1")
  \/ analyze_longevity_finish("r1", Texts)
  \/ analyze_intervention_finish("r1", Texts)

SpecNorm == Init /\ [][NextNorm]_vars

\* the deviation analyzer on every mapping
InitDev ==
  /\ BIOMARKER_RANGES = RangesAtStart
  /\ LONGEVITY_INTERVENTIONS = InterventionsAtStart
  /\ loop = NONE
  /\ pc = [r \in Requests |-> "idle"]
  /\ endpoint = [r \in Requests |-> NONE]
  /\ req = [r \in Requests |-> Nothing]
  /\ deviations = [r \in Requests |-> <<>>]
  /\ papers = [r \in Requests |-> <<>>]
  /\ prompt = [r \in Requests |-> Nothing]
  /\ searchOut = [r \in Requests |-> Nothing]
  /\ modelOut = [r \in Requests |-> Nothing]
  /\ branch = [r \in Requests |-> NONE]
  /\ resp = [r \in Requests |-> Nothing]
  /\ searchCalls = [r \in Requests |-> 0]
  /\ modelCalls = [r \in Requests |-> 0]
  /\ devIn \in BiomarkerMaps
  /\ devOut = NotRun

NextDev == analyze_dev

SpecDev == InitDev /\ [][NextDev]_vars

----------------------------------------------------------------------------
(* Properties *)

Analysis == {"analyze_longevity", "analyze_intervention"}

Replied(r) == "text" \in DOMAIN modelOut[r]

SearchDone(r) == "raised" \in DOMAIN searchOut[r]

\* the search call failed: it raised, or its body is not a JSON object with
\* esearchresult.idlist a list
SearchFailed(r) ==
  /\ SearchDone(r)
  /\ \/ searchOut[r].raised # NONE
     \/ ~searchOut[r].isJson
     \/ ~searchOut[r].isObject
     \/ ~searchOut[r].hasResult
     \/ ~searchOut[r].hasIdlist
     \/ "list" \notin DOMAIN searchOut[r].idlist

\* the object that the text from the first "{" to the last "}" decodes to
ObjectSpans(text) ==
  {json_loads(SubSeq(text, i, j)).value.obj :
     <<i, j>> \in {ij \in (1..Len(text)) \X (1..Len(text)) :
        /\ text[ij[1]] = "{" /\ \A k \in 1..(ij[1] - 1) : text[k] # "{"
        /\ text[ij[2]] = "}" /\ \A k \in (ij[2] + 1)..Len(text) : text[k] # "}"
        /\ ij[1] < ij[2]
        /\ json_loads(SubSeq(text, ij[1], ij[2])).ok
        /\ "obj" \in DOMAIN json_loads(SubSeq(text, ij[1], ij[2])).value}}

Decodable(text) == ObjectSpans(text) # {}

FirstThree(s) == [i \in 1..(IF Len(s) < 3 THEN Len(s) ELSE 3) |-> s[i]]

\* C1: for both analysis handlers and every reply text the model call
\* returns, the request completes with a valid typed response (200), never
\* with a server error.
C1_NeverServerError ==
  \A r \in Requests :
    (endpoint[r] \in Analysis /\ Replied(r)) => resp[r].status = 200

\* C2: in analyze_longevity, a reply text without a decodable span from the
\* first "{" to the last "}" yields exactly the fallback record.
C2_LongevityFallback ==
  \A r \in Requests :
    (endpoint[r] = "analyze_longevity" /\ Replied(r)
       /\ ~Decodable(modelOut[r].text))
    => resp[r] =
         [status |-> 200,
          body |-> [chronological_age |-> [int |-> req[r].age],
                    biological_age |-> [num |-> 10 * req[r].age],
                    longevity_score |-> [num |-> 500],
                    top_risk_factors |-> [list |-> FirstThree(deviations[r])],
                    top_interventions |->
                      [list |-> <<[lit |-> "caloric restriction"],
                                  [lit |-> "time-restricted eating"],
                                  [lit |-> "metformin"]>>],
                    estimated_healthspan_gain_years |-> [num |-> 20],
                    summary |-> [str |-> [raw |-> modelOut[r].text]]]]

C2_Witness ==
  \E r \in Requests :
    /\ endpoint[r] = "analyze_longevity" /\ Replied(r) /\ pc[r] = "done"
    /\ modelOut[r].text = <<"{", "}", "{", "}">>
    /\ Len(deviations[r]) > 3
    /\ resp[r].status = 200

NumericFields ==
  {"biological_age", "longevity_score", "estimated_healthspan_gain_years"}
ListFields == {"top_risk_factors", "top_interventions"}
StringFields == {"summary"}
LongevityKeys == NumericFields \cup ListFields \cup StringFields

\* the value the response model's validation accepts for a field
Accepted(k, v) ==
  IF k \in NumericFields THEN "num" \in DOMAIN v
  ELSE IF k \in ListFields THEN "list" \in DOMAIN v
  ELSE "str" \in DOMAIN v

DefaultOf(k, age) ==
  IF k = "biological_age" THEN [num |-> 10 * age]
  ELSE IF k = "longevity_score" THEN [num |-> 500]
  ELSE IF k = "estimated_healthspan_gain_years" THEN [num |-> 0]
  ELSE IF k \in ListFields THEN [list |-> <<>>]
  ELSE [str |-> [lit |-> ""]]

C4_CallFailurePropagates ==
  \A r \in Requests :
    /\ "failed" \in DOMAIN modelOut[r] =>
         (resp[r].status = 500 /\ branch[r] = NONE /\ pc[r] = "done")
    /\ branch[r] = "fallback" =>
         (Replied(r) /\ ~Decodable(modelOut[r].text))

C4_Witness ==
  \E r \in Requests :
    /\ endpoint[r] \in Analysis /\ "failed" \in DOMAIN modelOut[r]
    /\ pc[r] = "done" /\ resp[r].status = 500

C6_YieldsWhileWaiting ==
  \A r \in Requests :
    pc[r] \in {"await_search", "model_call"} =>
      /\ loop # r
      /\ \A q \in Requests \ {r} : pc[q] = "idle" => ENABLED health(q)

\* C7: on every path an analysis request issues exactly one model call,
\* after its literature lookup has returned and before its reply is
\* normalized.
C7_OneModelCall ==
  \A r \in Requests :
    /\ modelCalls[r] <= 1
    /\ modelCalls[r] = 1 => (SearchDone(r) /\ pc[r] \in {"model_call", "done"})
    /\ pc[r] \in {"idle", "await_search", "resumed"} => modelCalls[r] = 0
    /\ pc[r] \in {"idle", "await_search", "resumed", "model_call"} =>
         (branch[r] = NONE /\ resp[r] = Nothing)
    /\ (pc[r] = "done" /\ endpoint[r] \in Analysis) => modelCalls[r] = 1
    /\ branch[r] # NONE => modelCalls[r] = 1

C7_Witness ==
  \E r, q \in Requests :
    /\ pc[r] = "done" /\ branch[r] = "parsed" /\ modelCalls[r] = 1
    /\ pc[q] = "done" /\ branch[q] = "fallback" /\ modelCalls[q] = 1
    /\ SearchFailed(q)

\* the k-th smallest element of a set of numbers
Kth(S, k) == CHOOSE i \in S : Cardinality({j \in S : j <= i}) = k

\* C8: the analyzer returns one string per entry with a known identifier
\* and a value strictly below the lower or strictly above the upper bound,
\* in the order of the mapping, and nothing for any other entry.
C8_Deviations ==
  devOut.run =>
    LET known == {"hba1c", "crp", "igf1", "testosterone", "vitamin_d",
                  "homocysteine", "triglycerides", "hdl", "fasting_glucose",
                  "telomere_length"}
        out == {i \in 1..Len(devIn) :
                  /\ devIn[i].marker \in known
                  /\ \/ devIn[i].value < RangesAtStart[devIn[i].marker].low
                     \/ devIn[i].value > RangesAtStart[devIn[i].marker].high}
    IN /\ Len(devOut.issues) = Cardinality(out)
       /\ \A k \in 1..Len(devOut.issues) :
            LET e == devIn[Kth(out, k)]
                rng == RangesAtStart[e.marker]
            IN devOut.issues[k] =
                 [name |-> rng.name, value |-> e.value, unit |-> rng.unit,
                  dir |-> IF e.value < rng.low THEN "below" ELSE "above",
                  low |-> rng.low, high |-> rng.high]

C8_Witness ==
  /\ devOut.run
  /\ devIn = <<[marker |-> "hba1c", value |-> 45],
               [marker |-> "crp", value |-> 15]>>
  /\ Len(devOut.issues) = 1
  /\ devOut.issues[1].dir = "above"

\* C9: in analyze_intervention, a reply text without a decodable span yields
\* the fixed fallback, with the raw text as protocol and the sequence the
\* literature lookup returned (empty when it failed) as references.
C9_InterventionFallback ==
  \A r \in Requests :
    (endpoint[r] = "analyze_intervention" /\ Replied(r)
       /\ ~Decodable(modelOut[r].text))
    => /\ resp[r] =
            [status |-> 200,
             body |-> [intervention |-> [str |-> req[r].intervention],
                       evidence_level |-> [str |-> [lit |-> "moderate"]],
                       expected_lifespan_impact_years |-> [num |-> 10],
                       expected_healthspan_impact_years |-> [num |-> 20],
                       mechanisms |-> [list |-> <<>>],
                       side_effects |-> [list |-> <<>>],
                       recommended_protocol |->
                         [str |-> [raw |-> modelOut[r].text]],
                       pubmed_references |-> [list |-> papers[r]]]]
       /\ SearchFailed(r) => papers[r] = <<>>
       /\ ~SearchFailed(r) =>
            papers[r] = [i \in 1..(IF Len(searchOut[r].idlist.list) < 3
                                   THEN Len(searchOut[r].idlist.list) ELSE 3) |->
                           [pubmed |-> searchOut[r].idlist.list[i]]]

C9_Witness ==
  \E r \in Requests :
    /\ endpoint[r] = "analyze_intervention" /\ Replied(r) /\ pc[r] = "done"
    /\ modelOut[r].text = <<"}", "x", "{">>
    /\ resp[r].status = 200
    /\ Len(resp[r].body.pubmed_references.list) = 2

\* the response of a finished request, as a function of its own body and of
\* the outcomes of its own two calls
OwnResponse(r) ==
  LET devs == analyze_biomarker_deviations(req[r].biomarkers, RangesAtStart)
      refs == search_longevity_papers(searchOut[r]).value
      d == json_loads(Span(modelOut[r].text))
  IN IF endpoint[r] = "biomarker_reference" THEN Ok(RangesAtStart)
     ELSE IF endpoint[r] = "interventions_list"
          THEN Ok([interventions |-> InterventionsAtStart])
     ELSE IF endpoint[r] = "health"
          THEN Ok([status |-> "ok", service |-> "longevity-index"])
     ELSE IF ~Replied(r) THEN ServerError("upstream")
     ELSE IF endpoint[r] = "analyze_longevity"
          THEN LongevityScore(req[r],
                 IF d.ok THEN d.value
                 ELSE [obj |-> LongevityFallback(req[r], devs,
                                 InterventionsAtStart, modelOut[r].text)])
     ELSE InterventionAnalysis(req[r],
            IF d.ok THEN d.value
            ELSE [obj |-> InterventionFallback(modelOut[r].text, refs)])

\* C10: under every interleaving the two tables keep their values of
\* process start, and the response of a request depends only on its own
\* input and on the replies to its own calls.
C10_NoSharedState ==
  /\ BIOMARKER_RANGES = RangesAtStart
  /\ LONGEVITY_INTERVENTIONS = InterventionsAtStart
  /\ \A r \in Requests : pc[r] = "done" => resp[r] = OwnResponse(r)

C10_Witness ==
  \E r, q \in Requests :
    /\ pc[r] = "done" /\ pc[q] = "done"
    /\ endpoint[r] = "analyze_longevity" /\ endpoint[q] = "analyze_longevity"
    /\ req[r] # req[q]
    /\ branch[r] = "fallback" /\ branch[q] = "fallback"
    /\ Len(resp[r].body.top_risk_factors.list) = 1
    /\ Len(resp[q].body.top_risk_factors.list) = 3

====
